---------------------------- MODULE Spec2Model ----------------------------
(***************************************************************************)
(* Steam download monitor: the log-based monitor (SteamDownloadMonitor,    *)
(* steam_download_monitor.py) and the filesystem-based monitor             *)
(* (SteamDownloadMonitorV2, steam_download_monitor_v2.py).                 *)
(*                                                                         *)
(* Text is modelled as sequences of one-character strings, so that the     *)
(* regular expressions of the source are matched character by character.   *)
(***************************************************************************)
EXTENDS Integers, Sequences, FiniteSets, TLC

(***************************************************************************)
(* Characters and text helpers                                             *)
(***************************************************************************)
Digits == {"0", "1", "2", "3", "4", "5", "6", "7", "8", "9"}

\* Python's \s class (the characters of it that can occur in a log line)
Spaces == {" ", "\t", "\n", "\r"}

UpperCase == <<"A","B","C","D","E","F","G","H","I","J","K","L","M",
               "N","O","P","Q","R","S","T","U","V","W","X","Y","Z">>

LowerCase == <<"a","b","c","d","e","f","g","h","i","j","k","l","m",
               "n","o","p","q","r","s","t","u","v","w","x","y","z">>

DigitVal(c) ==
    CASE c = "0" -> 0 [] c = "1" -> 1 [] c = "2" -> 2 [] c = "3" -> 3
      [] c = "4" -> 4 [] c = "5" -> 5 [] c = "6" -> 6 [] c = "7" -> 7
      [] c = "8" -> 8 [] c = "9" -> 9

SetMax(S) == CHOOSE x \in S : \A y \in S : y <= x

SetMin(S) == CHOOSE x \in S : \A y \in S : x <= y

\* str.lower() of one character
LowerChar(c) ==
    IF \E k \in 1..26 : UpperCase[k] = c
    THEN LowerCase[CHOOSE k \in 1..26 : UpperCase[k] = c]
    ELSE c

\* str.lower()
Lower(s) == [k \in 1..Len(s) |-> LowerChar(s[k])]

\* the literal lit occurs in s at position i
MatchAt(s, i, lit) ==
    /\ i >= 1
    /\ i + Len(lit) - 1 <= Len(s)
    /\ \A k \in 1..Len(lit) : s[i + k - 1] = lit[k]

\* Python's  lit in s
Contains(s, lit) == \E i \in 1..Len(s) : MatchAt(s, i, lit)

\* length of the longest run of characters of class cls starting at s[i]
RunLen(s, i, cls) ==
    SetMax({n \in 0..(Len(s) - i + 1) : \A k \in 0..(n - 1) : s[i + k] \in cls})

\* value of a run of decimal digits
RECURSIVE DecVal(_)
DecVal(ds) ==
    IF Len(ds) = 0 THEN 0
    ELSE 10 * DecVal(SubSeq(ds, 1, Len(ds) - 1)) + DigitVal(ds[Len(ds)])

\* float() of a text matched by \d+\.?\d* . A log speed is kept as an exact
\* decimal, in hundredths of a MB/s; the log lines of the model carry at most
\* two decimals, so no digit is lost
ToFloat(txt) ==
    LET a    == RunLen(txt, 1, Digits)
        frac == IF a + 1 < Len(txt) THEN SubSeq(txt, a + 2, Len(txt)) ELSE <<>>
        f2   == IF Len(frac) = 0 THEN 0
                ELSE IF Len(frac) = 1 THEN 10 * DecVal(frac)
                ELSE DecVal(SubSeq(frac, 1, 2))
    IN  100 * DecVal(SubSeq(txt, 1, a)) + f2

(***************************************************************************)
(* _parse_log_line: the two regular expressions                            *)
(***************************************************************************)
AppIDLit == <<"A", "p", "p", "I", "D", " ">>

MBsLit == <<"M", "B", "/", "s">>

PausedLit == <<"p", "a", "u", "s", "e", "d">>

SuspendedLit == <<"s", "u", "s", "p", "e", "n", "d", "e", "d">>

\* The ways  (\d+\.?\d*)\s*MB/s  matches at s[j]: <<a, d, b, w>> = lengths of
\* \d+ , \.? , \d* , \s*
TailParses(s, j) ==
    UNION {UNION {UNION {
        {<<a, d, b, w>> : w \in {x \in 0..RunLen(s, j + a + d + b, Spaces) :
                                     MatchAt(s, j + a + d + b + x, MBsLit)}}
        : b \in 0..RunLen(s, j + a + d, Digits)}
        : d \in {x \in {0, 1} : x = 1 => MatchAt(s, j + a, <<".">>)}}
        : a \in 1..RunLen(s, j, Digits)}

\* every quantifier of the tail is greedy: the backtracking matcher returns the
\* parse that is largest in lexicographic order
TailBefore(p, q) ==
    \/ p[1] > q[1]
    \/ p[1] = q[1] /\ p[2] > q[2]
    \/ p[1] = q[1] /\ p[2] = q[2] /\ p[3] > q[3]
    \/ p[1] = q[1] /\ p[2] = q[2] /\ p[3] = q[3] /\ p[4] >= q[4]

TailParse(s, j) ==
    CHOOSE p \in TailParses(s, j) : \A q \in TailParses(s, j) : TailBefore(p, q)

\* The ways  AppID (\d+).*?(\d+\.?\d*)\s*MB/s  matches: <<i, g, j>> = start of
\* the match, length of group 1, start of group 2 ('.' does not match \n)
SpeedParses(s) ==
    UNION {UNION {
        {<<i, g, j>> : j \in {x \in (i + 6 + g)..Len(s) :
                                 /\ \A k \in (i + 6 + g)..(x - 1) : s[k] # "\n"
                                 /\ TailParses(s, x) # {}}}
        : g \in 1..RunLen(s, i + 6, Digits)}
        : i \in {x \in 1..Len(s) : MatchAt(s, x, AppIDLit)}}

\* re.search: leftmost start, group 1 greedy, .*? lazy
SpeedBefore(m, n) ==
    \/ m[1] < n[1]
    \/ m[1] = n[1] /\ m[2] > n[2]
    \/ m[1] = n[1] /\ m[2] = n[2] /\ m[3] <= n[3]

SpeedParse(s) ==
    CHOOSE m \in SpeedParses(s) : \A n \in SpeedParses(s) : SpeedBefore(m, n)

\* re.search(speed_pattern, line) succeeded
SpeedMatches(s) == SpeedParses(s) # {}

SpeedGroup1(s) ==
    LET m == SpeedParse(s) IN SubSeq(s, m[1] + 6, m[1] + 5 + m[2])

SpeedGroup2(s) ==
    LET m == SpeedParse(s)
        p == TailParse(s, m[3])
    IN  SubSeq(s, m[3], m[3] + p[1] + p[2] + p[3] - 1)

\* 'paused' in line.lower() or 'suspended' in line.lower()
HasPauseKeyword(s) ==
    Contains(Lower(s), PausedLit) \/ Contains(Lower(s), SuspendedLit)

\* re.search(r'AppID (\d+)', line): the leftmost token with at least one digit
AppStarts(s) ==
    {i \in 1..Len(s) : MatchAt(s, i, AppIDLit) /\ RunLen(s, i + 6, Digits) >= 1}

AppGroup1(s) ==
    LET i == SetMin(AppStarts(s))
    IN  SubSeq(s, i + 6, i + 5 + RunLen(s, i + 6, Digits))

None == [none |-> TRUE]

_parse_log_line(line) ==
    IF SpeedMatches(line)
    THEN [app_id |-> SpeedGroup1(line),
          speed  |-> ToFloat(SpeedGroup2(line)),
          status |-> IF HasPauseKeyword(line) THEN "paused" ELSE "downloading"]
    ELSE IF HasPauseKeyword(line) /\ AppStarts(line) # {}
    THEN [app_id |-> AppGroup1(line), speed |-> 0, status |-> "paused"]
    ELSE None

(***************************************************************************)
(* State                                                                   *)
(***************************************************************************)
VARIABLES
    steam_path,         \* self.steam_path: NoPath (None) or the install root
    now,                \* time.time(), whole seconds
    log_exists,         \* <steam_path>/logs/content_log.txt exists
    log,                \* its content
    last_position,      \* self.last_position
    vdf,                \* steamapps/libraryfolders.vdf
    lib_exists,         \* per library root: its steamapps directory exists
    manifest,           \* per library root and identifier: appmanifest_<id>.acf
    staging,            \* per library root and identifier: downloading/<id>
    listdir,            \* per library root: the order os.listdir returns its
                        \* manifests in
    download_stats,     \* self.download_stats
    ret,                \* the last call: its operation, what it saw, its result
    hist,               \* what has happened to the log file and to the staging
                        \* directories, for the claims that speak of it
    class,              \* "v1": SteamDownloadMonitor, "v2": SteamDownloadMonitorV2
    mon,                \* monitor(): its position and its local variables
    out                 \* what monitor() has reported so far

vars == <<steam_path, now, log_exists, log, last_position, vdf, lib_exists,
          manifest, staging, listdir, download_stats, ret, hist, class, mon,
          out>>

loopVars == <<mon, out>>

fsVars == <<vdf, lib_exists, manifest, staging, listdir>>

logVars == <<log_exists, log>>

\* self.steam_path is None: the registry lookup found nothing
NoPath == "None"

\* the install root, which is also the first library root
Primary == "P"

\* the library roots of the model: the install root and one more library
Roots == {"P", "L"}

\* the identifiers that have manifests or staging directories in the model
Apps == {<<"1">>, <<"2">>}

(***************************************************************************)
(* Files of the model                                                      *)
(***************************************************************************)
\* A manifest file: name is the value of "name" (<<>>: none in the file),
\* state the digits of "StateFlags" (<<>>: none); an unreadable manifest
\* raises when read (bytes that are not UTF-8)
NoManifest == [exists |-> FALSE, readable |-> TRUE, name |-> <<>>, state |-> <<>>]

\* appmanifest_<app_id>.acf under library root r, as the code can see it
ManifestAt(r, app_id) ==
    IF app_id \in Apps /\ lib_exists[r] THEN manifest[r][app_id] ELSE NoManifest

\* lines 56-72 (v1), 45-59 (v2): the primary root, then every "path" of
\* libraryfolders.vdf whose steamapps directory exists, duplicates included
LibraryFolders ==
    <<Primary>> \o
    (IF vdf.exists /\ vdf.readable
     THEN SelectSeq(vdf.paths, LAMBDA r : lib_exists[r])
     ELSE <<>>)

\* open() calls made while building the list
LibraryOpens == IF vdf.exists THEN 1 ELSE 0

\* The manifest search of _get_app_name from folder k on: the name found and
\* the number of manifest files opened
RECURSIVE NameScan(_, _, _, _)
NameScan(folders, k, app_id, opens) ==
    IF k > Len(folders)
    THEN [name |-> AppIDLit \o app_id, opens |-> opens]
    ELSE LET m == ManifestAt(folders[k], app_id)
         IN  IF ~m.exists THEN NameScan(folders, k + 1, app_id, opens)
             ELSE IF m.readable /\ m.name # <<>>
             THEN [name |-> m.name, opens |-> opens + 1]
             ELSE NameScan(folders, k + 1, app_id, opens + 1)

\* a lookup that lets the last library root with a name win
NameFromLastRoot(app_id) ==
    LET named == {k \in 1..Len(LibraryFolders) :
                    LET m == ManifestAt(LibraryFolders[k], app_id)
                    IN  m.exists /\ m.readable /\ m.name # <<>>}
    IN  IF steam_path = NoPath \/ named = {}
        THEN [name |-> AppIDLit \o app_id, opens |-> 0]
        ELSE [name  |-> ManifestAt(LibraryFolders[SetMax(named)], app_id).name,
              opens |-> LibraryOpens + Cardinality(named)]

_get_app_name(app_id) ==
    IF steam_path = NoPath
    THEN [name |-> AppIDLit \o app_id, opens |-> 0]
    ELSE NameScan(LibraryFolders, 1, app_id, LibraryOpens)

(***************************************************************************)
(* Strategy A: the log cursor                                              *)
(***************************************************************************)
\* the pieces of a sequence of texts, joined
RECURSIVE Concat(_)
Concat(pieces) ==
    IF pieces = <<>> THEN <<>> ELSE Head(pieces) \o Concat(Tail(pieces))

\* index of the first "\n" of s at or after position i, 0 when there is none
NextNewline(s, i) ==
    IF \E k \in i..Len(s) : s[k] = "\n"
    THEN SetMin({k \in i..Len(s) : s[k] = "\n"})
    ELSE 0

\* a reader that returns the terminated lines only
RECURSIVE ReadCompleteLines(_, _)
ReadCompleteLines(content, pos) ==
    IF pos >= Len(content) THEN <<>>
    ELSE LET nl == NextNewline(content, pos + 1)
         IN  IF nl = 0 THEN <<>>
             ELSE <<SubSeq(content, pos + 1, nl)>> \o ReadCompleteLines(content, nl)

\* f.readlines() with the stream at offset pos (0-based): the rest of the file
\* cut after every "\n"; the last entry has no "\n" when the file does not end
\* with one
RECURSIVE ReadLines(_, _)
ReadLines(content, pos) ==
    IF pos >= Len(content) THEN <<>>
    ELSE LET nl == NextNewline(content, pos + 1)
         IN  IF nl = 0 THEN <<SubSeq(content, pos + 1, Len(content))>>
             ELSE <<SubSeq(content, pos + 1, nl)>> \o ReadLines(content, nl)

\* a cursor that counts the characters of the batch instead of the offset
TellRelative(content, pos) == IF pos >= Len(content) THEN 0 ELSE Len(content) - pos

\* f.tell() after readlines(): the end of the file, or the offset sought when
\* that lies beyond the end
TellAfterRead(content, pos) == IF pos >= Len(content) THEN pos ELSE Len(content)

\* a reader that starts over when it finds no file
ReadResetsWhenMissing(ioerr) ==
    IF steam_path = NoPath \/ ~log_exists
    THEN [entries |-> <<>>, pos |-> 0, opens |-> 0, read |-> FALSE]
    ELSE IF ioerr
    THEN [entries |-> <<>>, pos |-> last_position, opens |-> 1, read |-> FALSE]
    ELSE [entries |-> ReadLines(log, last_position),
          pos     |-> TellAfterRead(log, last_position),
          opens   |-> 1, read |-> TRUE]

\* a reader that returns the new lines and forgets to move the cursor
ReadWithoutAdvance(ioerr) ==
    IF steam_path = NoPath \/ ~log_exists
    THEN [entries |-> <<>>, pos |-> last_position, opens |-> 0, read |-> FALSE]
    ELSE IF ioerr
    THEN [entries |-> <<>>, pos |-> last_position, opens |-> 1, read |-> FALSE]
    ELSE [entries |-> ReadLines(log, last_position),
          pos     |-> last_position,
          opens   |-> 1, read |-> TRUE]

\* _read_new_log_entries; ioerr: open() or the read raises (the handler of
\* line 131 returns the empty list and leaves the cursor)
_read_new_log_entries(ioerr) ==
    IF steam_path = NoPath \/ ~log_exists
    THEN [entries |-> <<>>, pos |-> last_position, opens |-> 0, read |-> FALSE]
    ELSE IF ioerr
    THEN [entries |-> <<>>, pos |-> last_position, opens |-> 1, read |-> FALSE]
    ELSE [entries |-> ReadLines(log, last_position),
          pos     |-> TellAfterRead(log, last_position),
          opens   |-> 1, read |-> TRUE]

\* a scan from the oldest line of the batch
OldestRecognised(entries) ==
    IF \E k \in 1..Len(entries) : _parse_log_line(entries[k]) # None
    THEN SetMin({k \in 1..Len(entries) : _parse_log_line(entries[k]) # None})
    ELSE 0

\* lines 145-157: index of the last entry the parser recognises, 0 if none
LatestRecognised(entries) ==
    IF \E k \in 1..Len(entries) : _parse_log_line(entries[k]) # None
    THEN SetMax({k \in 1..Len(entries) : _parse_log_line(entries[k]) # None})
    ELSE 0

\* the value get_current_download_status returns for a batch, and the files
\* opened on the way
StatusOf(entries) ==
    LET k == LatestRecognised(entries)
    IN  IF k = 0 THEN [value |-> None, opens |-> 0, line |-> <<>>]
        ELSE LET parsed == _parse_log_line(entries[k])
                 nm     == _get_app_name(parsed.app_id)
             IN  [value |-> [app_id     |-> parsed.app_id,
                             game_name  |-> nm.name,
                             speed_mbps |-> parsed.speed,
                             status     |-> parsed.status,
                             timestamp  |-> now],
                  opens |-> nm.opens,
                  line  |-> entries[k]]

(***************************************************************************)
(* Strategy B: discovery, size samples, activity                           *)
(***************************************************************************)
\* the files a staging directory of the model can hold
Files == {"a", "b"}

NoFile == [exists |-> FALSE, size |-> 0, mtime |-> 0]

NoDir == [exists |-> FALSE, files |-> [f \in Files |-> NoFile]]

EmptyDir == [exists |-> TRUE, files |-> [f \in Files |-> NoFile]]

\* downloading/<app_id> under library root r, as the code can see it
StagingAt(r, app_id) ==
    IF app_id \in Apps /\ lib_exists[r] THEN staging[r][app_id] ELSE NoDir

\* lines 134-137: the manifest's StateFlags value is one of '2', '4', '6'
ActiveState(m) == m.state \in {<<"2">>, <<"4">>, <<"6">>}

\* x in list
InList(x, list) == \E k \in 1..Len(list) : list[k] = x

\* lines 121-141 for one manifest file of one folder: the list after it
ScanManifest(r, app_id, apps) ==
    LET m  == ManifestAt(r, app_id)
        a1 == IF StagingAt(r, app_id).exists THEN Append(apps, app_id) ELSE apps
    IN  IF ~m.exists THEN apps
        ELSE IF m.readable /\ ActiveState(m) /\ ~InList(app_id, a1)
        THEN Append(a1, app_id)
        ELSE a1

\* lines 120-141: the manifest files of folder r in the order os.listdir
\* gives them (order: a sequence of identifiers)
RECURSIVE ScanFolder(_, _, _, _)
ScanFolder(r, order, k, apps) ==
    IF k > Len(order) THEN apps
    ELSE ScanFolder(r, order, k + 1, ScanManifest(r, order[k], apps))

\* lines 115-141: every folder of the list, in order
RECURSIVE ScanFolders(_, _, _)
ScanFolders(folders, k, apps) ==
    IF k > Len(folders) THEN apps
    ELSE IF ~lib_exists[folders[k]]
    THEN ScanFolders(folders, k + 1, apps)
    ELSE ScanFolders(folders, k + 1,
                     ScanFolder(folders[k], listdir[folders[k]], 1, apps))

_get_downloading_apps ==
    IF steam_path = NoPath THEN <<>>
    ELSE ScanFolders(LibraryFolders, 1, <<>>)

\* open() and os.listdir() calls of _get_downloading_apps
DiscoveryOpens ==
    IF steam_path = NoPath THEN 0
    ELSE LibraryOpens
         + Cardinality({k \in 1..Len(LibraryFolders) : lib_exists[LibraryFolders[k]]})
         + Cardinality({x \in (1..Len(LibraryFolders)) \X Apps :
                          ManifestAt(LibraryFolders[x[1]], x[2]).exists})

\* the files present in a directory
Present(dir) == {f \in Files : dir.files[f].exists}

RECURSIVE SumSizes(_, _)
SumSizes(dir, fs) ==
    IF fs = {} THEN 0
    ELSE LET f == CHOOSE x \in fs : TRUE
         IN  dir.files[f].size + SumSizes(dir, fs \ {f})

\* lines 156-161: the byte total of the files under the directory
TotalSize(dir) == SumSizes(dir, Present(dir))

\* lines 202-208: the largest modification time, 0 when there is no file
LatestMtime(dir) == SetMax({0} \cup {dir.files[f].mtime : f \in Present(dir)})

\* self.download_stats = []  (line 20): the container is a list
NewDownloadStats == [type |-> "list", items |-> <<>>]

\* app_id in self.download_stats: an element of a list, a key of a dict
StatsContains(stats, key) ==
    IF stats.type = "list" THEN InList(key, stats.items)
    ELSE key \in DOMAIN stats.items

\* self.download_stats[app_id], of a dict
StatsSample(stats, key) == stats.items[key]

\* self.download_stats[app_id] = sample: a list refuses a str index with a
\* TypeError (ok = FALSE) and is left as it was
StatsStore(stats, key, sample) ==
    IF stats.type = "list" THEN [ok |-> FALSE, stats |-> stats]
    ELSE [ok |-> TRUE,
          stats |-> [stats EXCEPT !.items = (key :> sample) @@ stats.items]]

\* A Strategy B speed is a fraction num/den of a MB/s, den > 0
Zero == [num |-> 0, den |-> 1]

\* max(0, speed_mb_per_sec)
ClampSpeed(q) == IF q.num < 0 THEN Zero ELSE q

\* lines 169-171: (size_diff / time_diff) / (1024 * 1024)
SpeedMB(size_diff, time_diff) == [num |-> size_diff, den |-> time_diff * (1024 * 1024)]

\* the samples kept in a mapping from identifier to (size, time)
AsMapping(stats) ==
    IF stats.type = "list" THEN [type |-> "dict", items |-> <<>>] ELSE stats

\* an estimator over a mapping that reports the signed rate
EstimateUnclamped(app_id, stats, staterr) ==
    LET dir == StagingAt(Primary, app_id)
        total_size == TotalSize(dir)
        old == AsMapping(stats)
        fresh == StatsStore(old, app_id, <<total_size, now>>)
    IN  IF ~dir.exists \/ staterr
        THEN [speed |-> Zero, stats |-> stats, read |-> FALSE]
        ELSE IF /\ StatsContains(old, app_id)
                /\ now - StatsSample(old, app_id)[2] > 0
        THEN [speed |-> SpeedMB(total_size - StatsSample(old, app_id)[1],
                                now - StatsSample(old, app_id)[2]),
              stats |-> fresh.stats, read |-> TRUE]
        ELSE [speed |-> Zero, stats |-> fresh.stats, read |-> TRUE]

\* an estimator that rates the first observation against an empty directory
\* one second earlier
EstimateFromZero(app_id, stats, staterr) ==
    LET dir == StagingAt(Primary, app_id)
        total_size == TotalSize(dir)
    IN  IF ~dir.exists \/ staterr
        THEN [speed |-> Zero, stats |-> stats, read |-> FALSE]
        ELSE [speed |-> ClampSpeed(SpeedMB(total_size, 1)),
              stats |-> stats, read |-> TRUE]

\* an estimator over a mapping that samples a missing directory as an empty
\* one
EstimateSamplesMissing(app_id, stats, staterr) ==
    LET dir == StagingAt(Primary, app_id)
        total_size == IF dir.exists THEN TotalSize(dir) ELSE 0
        fresh == StatsStore(AsMapping(stats), app_id, <<total_size, now>>)
    IN  IF dir.exists /\ staterr
        THEN [speed |-> Zero, stats |-> stats, read |-> FALSE]
        ELSE [speed |-> Zero, stats |-> fresh.stats, read |-> dir.exists]

\* _estimate_download_speed(app_id, <primary>/steamapps) with the sample store
\* stats; staterr: getsize raises on a file of the walk. Returns the speed,
\* the store afterwards and whether the byte total was read
_estimate_download_speed(app_id, stats, staterr) ==
    LET dir == StagingAt(Primary, app_id)
        total_size == TotalSize(dir)
        fresh == StatsStore(stats, app_id, <<total_size, now>>)
    IN  IF ~dir.exists
        THEN [speed |-> Zero, stats |-> stats, read |-> FALSE]
        ELSE IF staterr
        THEN [speed |-> Zero, stats |-> stats, read |-> FALSE]
        ELSE IF /\ StatsContains(stats, app_id)
                /\ now - StatsSample(stats, app_id)[2] > 0
        THEN IF fresh.ok
             THEN [speed |-> ClampSpeed(SpeedMB(total_size - StatsSample(stats, app_id)[1],
                                                now - StatsSample(stats, app_id)[2])),
                   stats |-> fresh.stats, read |-> TRUE]
             ELSE [speed |-> Zero, stats |-> stats, read |-> TRUE]
        ELSE [speed |-> Zero, stats |-> fresh.stats, read |-> TRUE]

\* a window that still counts a file modified exactly 120 seconds ago
ModifiedWithinOrAt(latest_mtime) == now - latest_mtime <= 120

\* line 210: modified in the last 2 minutes
RecentlyModified(latest_mtime) == now - latest_mtime < 120

\* an activity test that looks for the staging directory in every library
\* root
IsActiveAnywhere(app_id, mtimeerr) ==
    /\ ~mtimeerr
    /\ \E r \in Roots :
         /\ StagingAt(r, app_id).exists
         /\ now - LatestMtime(StagingAt(r, app_id)) < 120

\* an activity test that keeps the times read before the walk failed
IsActiveDespiteError(app_id, mtimeerr) ==
    LET dir == StagingAt(Primary, app_id)
    IN  /\ dir.exists
        /\ now - LatestMtime(dir) < 120

\* lines 197-213; mtimeerr: getmtime raises on a file of the walk
IsActive(app_id, mtimeerr) ==
    LET dir == StagingAt(Primary, app_id)
    IN  /\ dir.exists
        /\ ~mtimeerr
        /\ RecentlyModified(LatestMtime(dir))

\* lines 189-222: the loop of get_download_info over the discovered list
RECURSIVE InfoLoop(_, _, _, _, _, _)
InfoLoop(apps, k, stats, sizeErr, mtimeErr, acc) ==
    IF k > Len(apps)
    THEN [downloads |-> acc.downloads, stats |-> stats, opens |-> acc.opens,
          reads |-> acc.reads]
    ELSE LET app_id == apps[k]
             nm     == _get_app_name(app_id)
             est    == _estimate_download_speed(app_id, stats, app_id \in sizeErr)
             active == IsActive(app_id, app_id \in mtimeErr)
             dir    == StagingAt(Primary, app_id)
             rec    == [app_id     |-> app_id,
                        game_name  |-> nm.name,
                        speed_mbps |-> IF active THEN est.speed ELSE Zero,
                        status     |-> IF active THEN "downloading" ELSE "paused"]
         IN  InfoLoop(apps, k + 1, est.stats, sizeErr, mtimeErr,
                      [downloads |-> Append(acc.downloads, rec),
                       opens     |-> acc.opens + nm.opens
                                     + (IF dir.exists THEN 2 ELSE 0),
                       reads     |-> IF est.read
                                     THEN acc.reads \cup {app_id} ELSE acc.reads])

\* get_download_info: the records, the sample store afterwards, the number of
\* files opened and directories listed or walked
get_download_info(sizeErr, mtimeErr) ==
    IF steam_path = NoPath
    THEN [downloads |-> <<>>, stats |-> download_stats, opens |-> 0, reads |-> {}]
    ELSE InfoLoop(_get_downloading_apps, 1, download_stats,
                  sizeErr, mtimeErr,
                  [downloads |-> <<>>, opens |-> DiscoveryOpens, reads |-> {}])

(***************************************************************************)
(* Bounds and the values the environment draws from                        *)
(***************************************************************************)
\* the clock when the model starts, seconds since the epoch
StartClock == 1000

\* the clock of the model stops this many seconds after StartClock
MaxElapsed == 120

\* the clock of the model moves at most this many times between calls
MaxTicks == 2

\* the log file of the model holds at most this many characters
MaxLogLen == 32

\* the log file of the model is truncated or deleted at most this many times
MaxShrinks == 1

\* monitor() is called with a duration of at most this many minutes
MaxDuration == 2

\* monitor() of the model makes at most this many polls
MaxChecks == 4

\* the library manifest of the model names at most this many paths
MaxVdfPaths == 2

\* the longest line handed to the parser alone, in pieces of ParserTokens
MaxTokens == 4

\* what the Steam client appends to content_log.txt in one write: whole lines
\* and the two halves of a line written in two parts
LogChunks ==
    { <<"A","p","p","I","D"," ","1"," ","5",".","5"," ","M","B","/","s","\n">>,
      <<"A","p","p","I","D"," ","1"," ","P","a","u","s","e","d","\n">>,
      <<"n","o"," ","c","h","a","n","g","e","\n">>,
      <<"A","p","p","I","D"," ","2"," ","3">>,
      <<" ","M","B","/","s"," ","o","k","\n">> }

\* sizes a staging file is written with: 100 MiB and 150 MiB
FileSizes == {100 * 1024 * 1024, 150 * 1024 * 1024}

\* how far the clock moves between two events
TickSteps == {10, 110}

\* the interval_seconds monitor() is called with
Intervals == {0, 30, 60, 90}

\* the seconds one poll cycle takes
PollTimes == {0, 45}

\* the identifiers whose staging files the client writes in the model
Written == {<<"1">>}

NoVdf == [exists |-> FALSE, readable |-> TRUE, paths |-> <<>>]

VdfValues ==
    {NoVdf}
    \cup {[exists |-> TRUE, readable |-> FALSE, paths |-> <<>>]}
    \cup {[exists |-> TRUE, readable |-> TRUE, paths |-> ps] :
            ps \in UNION {[1..n -> Roots] : n \in 0..MaxVdfPaths}}

\* the name a manifest of library root r gives identifier a
GameName(r, a) == <<"G">> \o a \o <<"@", r>>

\* the manifests the client writes for identifier a in library root r:
\* downloading, installed, without a name, not UTF-8; identifier 2 lives in
\* the primary root only
ManifestValues(r, a) ==
    IF a = <<"1">>
    THEN {[exists |-> TRUE, readable |-> TRUE, name |-> GameName(r, a), state |-> <<"4">>],
          [exists |-> TRUE, readable |-> TRUE, name |-> GameName(r, a), state |-> <<"1">>],
          [exists |-> TRUE, readable |-> TRUE, name |-> <<>>, state |-> <<"6">>],
          [exists |-> TRUE, readable |-> FALSE, name |-> GameName(r, a), state |-> <<"4">>]}
    ELSE IF r = Primary
    THEN {[exists |-> TRUE, readable |-> TRUE, name |-> GameName(r, a), state |-> <<"2">>]}
    ELSE {}

\* the staging directories the client makes and removes: those of the primary
\* root, and all but that of identifier 2 in the other library
PrimaryCells == {<<Primary, a>> : a \in Apps}

LibraryCells == PrimaryCells \cup {<<"L", <<"1">> >>}

\* the orders in which os.listdir can return the manifests of a folder
Listings == {<< <<"1">>, <<"2">> >>, << <<"2">>, <<"1">> >>}

NoHist == [polled |-> FALSE, appended |-> FALSE, reads |-> FALSE,
           unread |-> FALSE, shrinks |-> 0, ticks |-> 0, delivered |-> <<>>,
           seen |-> [a \in Written |-> <<>>]]

\* ret when the environment has moved on since the last call
NoCall == [op |-> "none"]

\* monitor() has not been called
Idle == [pc |-> "idle", start_time |-> 0, end_time |-> 0, check_count |-> 0,
         last_status |-> None, duration_minutes |-> 0, interval_seconds |-> 0,
         slept |-> 0, wake |-> 0, slow |-> FALSE, entry |-> "main"]

\* nothing reported yet: the "Steam not found" error, polls made, sleeps
\* started, the completion marker, and what the last poll printed
NoOut == [errors |-> 0, polls |-> 0, sleeps |-> 0, completed |-> 0,
          shown |-> None, interrupted |-> 0, uncaught |-> 0]

(***************************************************************************)
(* The environment: the Steam client and the clock                         *)
(***************************************************************************)
Tick ==
    \E d \in TickSteps :
        /\ now + d <= StartClock + MaxElapsed
        /\ hist.ticks < MaxTicks
        /\ now' = now + d
        /\ hist' = [hist EXCEPT !.ticks = @ + 1]
        /\ ret' = NoCall
        /\ UNCHANGED <<steam_path, logVars, last_position, fsVars,
                       download_stats, class, loopVars>>

LogCreate ==
    /\ ~log_exists
    /\ log_exists' = TRUE
    /\ log' = <<>>
    /\ ret' = NoCall
    /\ UNCHANGED <<steam_path, now, last_position, fsVars, download_stats,
                   hist, class, loopVars>>

LogAppend ==
    \E c \in LogChunks :
        /\ log_exists
        /\ Len(log) + Len(c) <= MaxLogLen
        /\ log' = log \o c
        /\ hist' = [hist EXCEPT !.appended = TRUE, !.unread = TRUE]
        /\ ret' = NoCall
        /\ UNCHANGED <<steam_path, now, log_exists, last_position, fsVars,
                       download_stats, class, loopVars>>

LogTruncate ==
    /\ log_exists
    /\ log # <<>>
    /\ hist.shrinks < MaxShrinks
    /\ log' = <<>>
    /\ hist' = [hist EXCEPT !.shrinks = @ + 1, !.delivered = <<>>]
    /\ ret' = NoCall
    /\ UNCHANGED <<steam_path, now, log_exists, last_position, fsVars,
                   download_stats, class, loopVars>>

LogDelete ==
    /\ log_exists
    /\ hist.shrinks < MaxShrinks
    /\ log_exists' = FALSE
    /\ log' = <<>>
    /\ hist' = [hist EXCEPT !.shrinks = @ + 1, !.delivered = <<>>]
    /\ ret' = NoCall
    /\ UNCHANGED <<steam_path, now, last_position, fsVars, download_stats,
                   class, loopVars>>

WriteVdf ==
    \E v \in VdfValues :
        /\ steam_path # NoPath
        /\ v # vdf
        /\ vdf' = v
        /\ ret' = NoCall
        /\ UNCHANGED <<steam_path, now, logVars, last_position, lib_exists,
                       manifest, staging, listdir, download_stats, hist,
                       class, loopVars>>

WriteManifest ==
    \E r \in Roots, a \in Apps :
        \E m \in ManifestValues(r, a) \cup {NoManifest} :
            /\ steam_path # NoPath
            /\ lib_exists[r]
            /\ m # manifest[r][a]
            /\ manifest' = [manifest EXCEPT ![r][a] = m]
            /\ ret' = NoCall
            /\ UNCHANGED <<steam_path, now, logVars, last_position, vdf,
                           lib_exists, staging, listdir, download_stats,
                           hist, class, loopVars>>

MakeStaging(cells) ==
    \E c \in cells :
        /\ steam_path # NoPath
        /\ lib_exists[c[1]]
        /\ ~staging[c[1]][c[2]].exists
        /\ staging' = [staging EXCEPT ![c[1]][c[2]] = EmptyDir]
        /\ ret' = NoCall
        /\ UNCHANGED <<steam_path, now, logVars, last_position, vdf,
                       lib_exists, manifest, listdir, download_stats, hist,
                       class, loopVars>>

RemoveStaging(cells) ==
    \E c \in cells :
        /\ staging[c[1]][c[2]].exists
        /\ staging' = [staging EXCEPT ![c[1]][c[2]] = NoDir]
        /\ ret' = NoCall
        /\ UNCHANGED <<steam_path, now, logVars, last_position, vdf,
                       lib_exists, manifest, listdir, download_stats, hist,
                       class, loopVars>>

\* the client writes a file of the staging directory of a under the primary
\* root: its size and its modification time change
WriteFile ==
    \E a \in Written, f \in Files, sz \in FileSizes :
        /\ staging[Primary][a].exists
        /\ staging' = [staging EXCEPT ![Primary][a].files[f] =
                          [exists |-> TRUE, size |-> sz, mtime |-> now]]
        /\ ret' = NoCall
        /\ UNCHANGED <<steam_path, now, logVars, last_position, vdf,
                       lib_exists, manifest, listdir, download_stats, hist,
                       class, loopVars>>

(***************************************************************************)
(* The operations, called directly                                         *)
(***************************************************************************)
\* SteamDownloadMonitor.get_current_download_status()
GetCurrentDownloadStatus ==
    \E ioerr \in BOOLEAN :
        LET r  == _read_new_log_entries(ioerr)
            st == StatusOf(r.entries)
        IN  /\ class = "v1"
            /\ mon.pc \in {"idle", "stopped"}
            /\ ioerr => (steam_path # NoPath /\ log_exists)
            /\ last_position' = r.pos
            /\ ret' = [op |-> "get_current_download_status",
                       entries |-> r.entries, value |-> st.value,
                       line |-> st.line, opens |-> r.opens + st.opens,
                       read |-> r.read, pos_before |-> last_position,
                       quiet |-> hist.polled /\ ~hist.appended,
                       caught_up |-> hist.reads /\ ~hist.unread]
            /\ hist' = [hist EXCEPT !.polled = TRUE, !.appended = FALSE,
                                    !.reads = @ \/ r.read,
                                    !.unread = @ /\ ~r.read,
                                    !.delivered = IF hist.shrinks = 0
                                                  THEN @ \o Concat(r.entries)
                                                  ELSE @]
            /\ UNCHANGED <<steam_path, now, logVars, fsVars, download_stats,
                           class, loopVars>>

\* Steam writes into the staging directory of app 1 in the other library
WriteLibraryFile ==
    /\ staging["L"][<<"1">>].exists
    /\ ~staging["L"][<<"1">>].files["a"].exists
    /\ staging' = [staging EXCEPT !["L"][<<"1">>].files["a"] =
                      [exists |-> TRUE, size |-> 100 * 1024 * 1024,
                       mtime |-> now]]
    /\ ret' = NoCall
    /\ UNCHANGED <<steam_path, now, logVars, last_position, vdf,
                   lib_exists, manifest, listdir, download_stats, hist,
                   class, loopVars>>

\* the identifiers whose staging directory under the primary root holds a
\* file: a walk can raise only while it looks at a file
Walkable == {a \in Apps : Present(StagingAt(Primary, a)) # {}}

\* hist.seen after a call that read the byte totals of the identifiers reads
Seen(reads) ==
    [a \in Written |-> IF a \in reads
                    THEN <<TotalSize(StagingAt(Primary, a)), now>>
                    ELSE hist.seen[a]]

\* SteamDownloadMonitorV2.get_download_info()
GetDownloadInfo ==
    \E sizeErr \in SUBSET Walkable, mtimeErr \in SUBSET Walkable :
        LET r == get_download_info(sizeErr, mtimeErr)
        IN  /\ class = "v2"
            /\ mon.pc \in {"idle", "stopped"}
            /\ download_stats' = r.stats
            /\ ret' = [op |-> "get_download_info", value |-> r.downloads,
                       opens |-> r.opens, reads |-> r.reads,
                       mtimeErr |-> mtimeErr]
            /\ hist' = [hist EXCEPT !.seen = Seen(r.reads)]
            /\ UNCHANGED <<steam_path, now, logVars, last_position, fsVars,
                           class, loopVars>>

\* SteamDownloadMonitorV2._estimate_download_speed(app_id, <primary>/steamapps)
EstimateDownloadSpeed ==
    \E a \in Apps, staterr \in BOOLEAN :
        LET r == _estimate_download_speed(a, download_stats, staterr)
        IN  /\ class = "v2"
            /\ mon.pc \in {"idle", "stopped"}
            /\ steam_path # NoPath
            /\ staterr => a \in Walkable
            /\ download_stats' = r.stats
            /\ ret' = [op |-> "_estimate_download_speed", app_id |-> a,
                       value |-> r.speed, read |-> r.read,
                       total |-> TotalSize(StagingAt(Primary, a)),
                       prev |-> IF a \in Written THEN hist.seen[a]
                                ELSE <<>>]
            /\ hist' = [hist EXCEPT !.seen = Seen(IF r.read THEN {a} ELSE {})]
            /\ UNCHANGED <<steam_path, now, logVars, last_position, fsVars,
                           class, loopVars>>

\* _get_app_name(app_id), of either class
GetAppName ==
    \E a \in Apps \cup {<<"9", "9", "9">>} :
        LET r == _get_app_name(a)
        IN  /\ mon.pc \in {"idle", "stopped"}
            /\ ret' = [op |-> "_get_app_name", app_id |-> a, value |-> r.name,
                       opens |-> r.opens]
            /\ UNCHANGED <<steam_path, now, logVars, last_position, fsVars,
                           download_stats, hist, class, loopVars>>

(***************************************************************************)
(* monitor()                                                               *)
(***************************************************************************)
\* a loop that tests the deadline only after a poll
AlwaysPoll(t, end_time) == "poll"

\* line 192 (v1), 245 (v2): the loop test, made at time t
AfterTest(t, end_time) == IF t < end_time THEN "poll" ELSE "finish"

\* a loop that always sleeps the whole interval
SleepWholeInterval(t, end_time, interval_seconds) ==
    IF end_time - t > 0 THEN interval_seconds ELSE -1

\* lines 227-233 (v1), 275-281 (v2): the seconds to sleep after a poll that
\* ended at time t; -1 stands for break
SleepFor(t, end_time, interval_seconds) ==
    LET remaining_time == end_time - t
    IN  IF remaining_time > interval_seconds THEN interval_seconds
        ELSE IF remaining_time > 0 THEN remaining_time
        ELSE -1

\* a monitor that enters its loop without looking at the root
MonitorStartUnchecked ==
    \E d \in 0..MaxDuration, i \in Intervals :
        /\ mon.pc = "idle"
        /\ mon' = [mon EXCEPT !.pc = AfterTest(now, now + d * 60),
                              !.start_time = now,
                              !.end_time = now + d * 60,
                              !.duration_minutes = d,
                              !.interval_seconds = i]
        /\ out' = out
        /\ ret' = NoCall
        /\ UNCHANGED <<steam_path, now, logVars, last_position, fsVars,
                       download_stats, hist, class>>

\* monitor(d, i) is called: lines 169-190 (v1), 228-243 (v2), and the first
\* loop test
MonitorStart ==
    \E d \in 0..MaxDuration, i \in Intervals :
        /\ mon.pc = "idle"
        /\ IF steam_path = NoPath
           THEN /\ mon' = [mon EXCEPT !.pc = "stopped"]
                /\ out' = [out EXCEPT !.errors = @ + 1]
           ELSE /\ mon' = [mon EXCEPT !.pc = AfterTest(now, now + d * 60),
                                      !.start_time = now,
                                      !.end_time = now + d * 60,
                                      !.duration_minutes = d,
                                      !.interval_seconds = i]
                /\ out' = out
        /\ ret' = NoCall
        /\ UNCHANGED <<steam_path, now, logVars, last_position, fsVars,
                       download_stats, hist, class>>

\* a display that shows the new record only
ShownFresh(status, last_status) == [record |-> status, last |-> None]

\* what lines 201-221 print for a poll of v1: the record shown and the record
\* an idle report takes its "last download" from
ShownV1(status, last_status) ==
    IF status # None THEN [record |-> status, last |-> None]
    ELSE [record |-> None, last |-> last_status]

\* after the poll: sleep, or break out of the loop
AfterPoll(m, t) ==
    LET r == SleepFor(t, m.end_time, m.interval_seconds)
    IN  IF r < 0 THEN [m EXCEPT !.pc = "finish"]
        ELSE [m EXCEPT !.pc = "sleep", !.slept = r, !.wake = t + r]

\* one poll cycle of SteamDownloadMonitor.monitor, lines 193-233; the cycle
\* takes d seconds
PollV1 ==
    \E ioerr \in BOOLEAN, d \in PollTimes :
        LET r  == _read_new_log_entries(ioerr)
            st == StatusOf(r.entries)
            m  == [mon EXCEPT !.check_count = @ + 1,
                              !.last_status = IF st.value # None THEN st.value
                                              ELSE @,
                              !.slow = @ \/ d > 0]
        IN  /\ class = "v1"
            /\ mon.pc = "poll"
            /\ d = 0 => mon.check_count < MaxChecks
            /\ ioerr => log_exists
            /\ last_position' = r.pos
            /\ now' = now + d
            /\ mon' = AfterPoll(m, now + d)
            /\ out' = [out EXCEPT !.polls = @ + 1,
                                  !.sleeps = IF mon'.pc = "sleep" THEN @ + 1 ELSE @,
                                  !.shown = ShownV1(st.value, mon.last_status)]
            /\ ret' = [op |-> "get_current_download_status",
                       entries |-> r.entries, value |-> st.value,
                       line |-> st.line, opens |-> r.opens + st.opens,
                       read |-> r.read, pos_before |-> last_position,
                       quiet |-> hist.polled /\ ~hist.appended,
                       caught_up |-> hist.reads /\ ~hist.unread]
            /\ hist' = [hist EXCEPT !.polled = TRUE, !.appended = FALSE,
                                    !.reads = @ \/ r.read,
                                    !.unread = @ /\ ~r.read,
                                    !.delivered = IF hist.shrinks = 0
                                                  THEN @ \o Concat(r.entries)
                                                  ELSE @]
            /\ UNCHANGED <<steam_path, logVars, fsVars, download_stats, class>>

\* one poll cycle of SteamDownloadMonitorV2.monitor, lines 246-281
PollV2 ==
    \E sizeErr \in SUBSET Walkable, mtimeErr \in SUBSET Walkable,
       d \in PollTimes :
        LET r == get_download_info(sizeErr, mtimeErr)
            m == [mon EXCEPT !.check_count = @ + 1, !.slow = @ \/ d > 0]
        IN  /\ class = "v2"
            /\ mon.pc = "poll"
            /\ d = 0 => mon.check_count < MaxChecks
            /\ download_stats' = r.stats
            /\ now' = now + d
            /\ mon' = AfterPoll(m, now + d)
            /\ out' = [out EXCEPT !.polls = @ + 1,
                                  !.sleeps = IF mon'.pc = "sleep" THEN @ + 1 ELSE @,
                                  !.shown = [records |-> r.downloads]]
            /\ ret' = [op |-> "get_download_info", value |-> r.downloads,
                       opens |-> r.opens, reads |-> r.reads,
                       mtimeErr |-> mtimeErr]
            /\ hist' = [hist EXCEPT !.seen = Seen(r.reads)]
            /\ UNCHANGED <<steam_path, logVars, last_position, fsVars, class>>

\* time.sleep returns (lines 229, 231), and the loop test is made again
Wake ==
    /\ mon.pc = "sleep"
    /\ now' = mon.wake
    /\ mon' = [mon EXCEPT !.pc = AfterTest(mon.wake, mon.end_time)]
    /\ ret' = NoCall
    /\ UNCHANGED <<steam_path, logVars, last_position, fsVars, download_stats,
                   hist, class, out>>

\* lines 235-237 (v1), 283-285 (v2): the completion marker
Finish ==
    /\ mon.pc = "finish"
    /\ mon' = [mon EXCEPT !.pc = "stopped"]
    /\ out' = [out EXCEPT !.completed = @ + 1]
    /\ ret' = NoCall
    /\ UNCHANGED <<steam_path, now, logVars, last_position, fsVars,
                   download_stats, hist, class>>

\* who called monitor(): main() of either module (v1 lines 240-250, v2 lines
\* 288-298) or example_basic_usage of example_usage.py (lines 8-22, 68)
EntryPoints == {"main", "example"}

\* Ctrl-C while the loop runs: KeyboardInterrupt is no Exception, so no
\* handler inside monitor() stops it; main() catches it and prints the
\* "stopped by the user" report, example_usage.py has no handler and the
\* interpreter prints the traceback
Interrupt ==
    /\ mon.pc \in {"poll", "sleep"}
    /\ mon' = [mon EXCEPT !.pc = "stopped"]
    /\ out' = IF mon.entry = "main"
              THEN [out EXCEPT !.interrupted = @ + 1]
              ELSE [out EXCEPT !.uncaught = @ + 1]
    /\ ret' = NoCall
    /\ UNCHANGED <<steam_path, now, logVars, last_position, fsVars,
                   download_stats, hist, class>>

(***************************************************************************)
(* Initial states                                                          *)
(***************************************************************************)
\* __init__ of either class (lines 17-22 of v1, 18-20 of v2): the registry
\* lookup found the install root or nothing
InitObject ==
    /\ steam_path \in {NoPath, Primary}
    /\ last_position = 0
    /\ download_stats = NewDownloadStats
    /\ ret = [op |-> "__init__"]
    /\ hist = NoHist
    /\ mon = Idle
    /\ out = NoOut
    /\ now = StartClock

NoFiles ==
    /\ vdf = NoVdf
    /\ lib_exists = [r \in Roots |-> TRUE]
    /\ manifest = [r \in Roots |-> [a \in Apps |-> NoManifest]]
    /\ staging = [r \in Roots |-> [a \in Apps |-> NoDir]]

\* Strategy A: the log file; identifier 1 has a manifest, identifier 2 none
InitLog ==
    /\ InitObject
    /\ class = "v1"
    /\ log_exists \in BOOLEAN
    /\ log = <<>>
    /\ vdf = NoVdf
    /\ lib_exists = [r \in Roots |-> TRUE]
    /\ manifest = [r \in Roots |-> [a \in Apps |->
                      IF r = Primary /\ a = <<"1">>
                      THEN [exists |-> TRUE, readable |-> TRUE,
                            name |-> GameName(r, a), state |-> <<"4">>]
                      ELSE NoManifest]]
    /\ staging = [r \in Roots |-> [a \in Apps |-> NoDir]]
    /\ listdir = [r \in Roots |-> << <<"1">>, <<"2">> >>]

\* Strategy B: on disk, identifier 1 has a manifest in a downloading state and
\* identifier 2 a manifest of an installed game; no staging directory yet
InitSampler ==
    /\ InitObject
    /\ class = "v2"
    /\ log_exists = FALSE
    /\ log = <<>>
    /\ vdf = NoVdf
    /\ lib_exists = [r \in Roots |-> TRUE]
    /\ manifest = [r \in Roots |-> [a \in Apps |->
                      IF r # Primary THEN NoManifest
                      ELSE [exists |-> TRUE, readable |-> TRUE,
                            name |-> GameName(r, a),
                            state |-> IF a = <<"1">> THEN <<"4">> ELSE <<"1">>]]]
    /\ staging = [r \in Roots |-> [a \in Apps |-> NoDir]]
    /\ listdir = [r \in Roots |-> << <<"1">>, <<"2">> >>]

\* the calls and the environment of SteamDownloadMonitor
NextLog ==
    \/ LogCreate
    \/ LogAppend
    \/ LogTruncate
    \/ LogDelete
    \/ GetCurrentDownloadStatus

\* the calls and the environment of SteamDownloadMonitorV2's size samples
NextSampler ==
    \/ Tick
    \/ MakeStaging(PrimaryCells)
    \/ RemoveStaging(PrimaryCells)
    \/ WriteFile
    \/ GetDownloadInfo
    \/ EstimateDownloadSpeed

\* monitor() of either class. The log file holds a line when the monitor of
\* v1 starts; v2 finds the staging directory of identifier 1 with a file
\* written at StartClock
InitLoop ==
    /\ InitObject
    /\ class \in {"v1", "v2"}
    /\ log_exists = TRUE
    /\ log = <<"A","p","p","I","D"," ","1"," ","P","a","u","s","e","d","\n">>
    /\ vdf = NoVdf
    /\ lib_exists = [r \in Roots |-> TRUE]
    /\ manifest = [r \in Roots |-> [a \in Apps |->
                      IF r = Primary /\ a = <<"1">>
                      THEN [exists |-> TRUE, readable |-> TRUE,
                            name |-> GameName(r, a), state |-> <<"4">>]
                      ELSE NoManifest]]
    /\ staging = [r \in Roots |-> [a \in Apps |->
                      IF r = Primary /\ a = <<"1">>
                      THEN [EmptyDir EXCEPT !.files["a"] =
                              [exists |-> TRUE, size |-> 100 * 1024 * 1024,
                               mtime |-> StartClock]]
                      ELSE NoDir]]
    /\ listdir = [r \in Roots |-> << <<"1">>, <<"2">> >>]

NextLoop ==
    \/ MonitorStart
    \/ PollV1
    \/ PollV2
    \/ Wake
    \/ Finish
    \/ (class = "v1" /\ LogAppend)
    \/ GetCurrentDownloadStatus
    \/ GetDownloadInfo
    \/ GetAppName

\* the library layout: which roots the library manifest names, and which
\* manifests and staging directories they hold. The files are those of the
\* install root: there are none to write when no install root was found
InitDiscovery ==
    /\ InitObject
    /\ class = "v2"
    /\ log_exists = FALSE
    /\ log = <<>>
    /\ NoFiles
    /\ listdir \in {l \in [Roots -> Listings] : l["L"] = l[Primary]}

NextDiscovery ==
    \/ WriteVdf
    \/ WriteManifest
    \/ MakeStaging(LibraryCells)
    \/ RemoveStaging(LibraryCells)
    \/ WriteLibraryFile
    \/ GetDownloadInfo
    \/ GetAppName

\* the loop alone, started from the files of InitLoop
NextLive ==
    \/ MonitorStart
    \/ PollV1
    \/ PollV2
    \/ Wake
    \/ Finish

\* a poll during which the clock moves
TimedPoll == (PollV1 \/ PollV2) /\ now' > now

\* time.sleep returns and the statements after the loop run (weak fairness);
\* the clock does not stand still for ever while the loop polls: strong
\* fairness of TimedPoll, which is enabled exactly when the loop is about to
\* poll, written out
FairLoop ==
    /\ WF_vars(Wake)
    /\ WF_vars(Finish)
    /\ []<>(mon.pc = "poll") => []<><<TimedPoll>>_vars

\* the loop started from main() or from example_usage.py, with a root found
InitInterrupt ==
    /\ steam_path = Primary
    /\ last_position = 0
    /\ download_stats = NewDownloadStats
    /\ ret = [op |-> "__init__"]
    /\ hist = NoHist
    /\ out = NoOut
    /\ now = StartClock
    /\ class \in {"v1", "v2"}
    /\ mon \in {[Idle EXCEPT !.entry = e] :
                  e \in IF class = "v1" THEN EntryPoints ELSE {"main"}}
    /\ log_exists = TRUE
    /\ log = <<"A","p","p","I","D"," ","1"," ","P","a","u","s","e","d","\n">>
    /\ NoFiles
    /\ listdir = [r \in Roots |-> << <<"1">>, <<"2">> >>]

NextInterrupt ==
    \/ NextLive
    \/ Interrupt

\* the pieces the lines handed to _parse_log_line are made of
ParserTokens ==
    {<<"A", "p", "p", "I", "D", " ">>, <<"1">>, <<"2">>, <<" ">>, <<".">>,
     <<"M", "B", "/", "s">>, <<"P", "a", "u", "s", "e", "d">>}

\* the two lines of the documentation
UpdateLine ==
    <<"A","p","p","I","D"," ","1","2","3"," ","u","p","d","a","t","e",",",
      " ","d","o","w","n","l","o","a","d","e","d"," ","1","0"," ","M","B",
      " ","a","t"," ","5",".","5","0"," ","M","B","/","s">>

PausedLine ==
    <<"A","p","p","I","D"," ","1","2","3"," ","p","a","u","s","e","d">>

ParserLines ==
    {Concat(ps) : ps \in UNION {[1..n -> ParserTokens] : n \in 0..MaxTokens}}
    \cup {UpdateLine, PausedLine,
          <<"A","p","p","I","D"," ","1"," ","S","U","S","P","E","N","D","E","D">>}

\* a line is handed to _parse_log_line
ParseLine ==
    /\ ret' = [op |-> "_parse_log_line", line |-> log,
               value |-> _parse_log_line(log)]
    /\ UNCHANGED <<steam_path, now, logVars, last_position, fsVars,
                   download_stats, hist, class, loopVars>>

\* the parser alone: log holds the line
InitParser ==
    /\ InitObject
    /\ steam_path = Primary
    /\ class = "v1"
    /\ log_exists = TRUE
    /\ log \in ParserLines
    /\ NoFiles
    /\ listdir = [r \in Roots |-> << <<"1">>, <<"2">> >>]

NextParser == ParseLine

\* the operations of both classes, each with its own environment
Init == InitLog \/ InitSampler

Next == (class = "v1" /\ NextLog) \/ (class = "v2" /\ NextSampler)

Spec == Init /\ [][Next]_vars

SpecLoop == InitLoop /\ [][NextLoop]_vars

SpecParser == InitParser /\ [][NextParser]_vars

SpecLive == InitLoop /\ [][NextLive]_vars /\ FairLoop

SpecInterrupt == InitInterrupt /\ [][NextInterrupt]_vars

SpecDiscovery == InitDiscovery /\ [][NextDiscovery]_vars

SpecLog == InitLog /\ [][NextLog]_vars

SpecSampler == InitSampler /\ [][NextSampler]_vars

(***************************************************************************)
(* Properties                                                              *)
(***************************************************************************)
PollA == "get_current_download_status"

PollB == "get_download_info"

Estimate == "_estimate_download_speed"

\* the speed the size sampler owes for a growth of size_diff bytes in
\* time_diff seconds
OwedSpeed(size_diff, time_diff) ==
    IF size_diff <= 0 THEN Zero ELSE SpeedMB(size_diff, time_diff)

SameSpeed(p, q) == (p.num = 0 /\ q.num = 0) \/ p = q

\* C1: a call of _estimate_download_speed that reads total s2 at time t2, when
\* the previous call for the same identifier read s1 at t1 < t2, returns
\* max(0, (s2 - s1) / (t2 - t1)) / 1048576 MB/s; 100 MiB then 150 MiB taken
\* 10 s apart give 5.0 MB/s.
C1_SizeSamplerRate ==
    (ret.op = Estimate /\ ret.read /\ ret.prev # <<>> /\ now > ret.prev[2])
    => /\ SameSpeed(ret.value, OwedSpeed(ret.total - ret.prev[1], now - ret.prev[2]))
       /\ (/\ ret.prev = <<100 * 1024 * 1024, now - 10>>
           /\ ret.total = 150 * 1024 * 1024)
          => ret.value.num = 5 * ret.value.den

\* C2: after a call of _estimate_download_speed that read the byte total of
\* an existing staging directory, download_stats holds for that identifier
\* the pair (size just read, time of the call); the same holds for every
\* identifier whose total get_download_info read.
C2_SampleUpdated ==
    /\ (ret.op = Estimate /\ ret.read)
       => /\ StatsContains(download_stats, ret.app_id)
          /\ StatsSample(download_stats, ret.app_id) = <<ret.total, now>>
    /\ ret.op = PollB
       => \A a \in ret.reads :
            /\ StatsContains(download_stats, a)
            /\ StatsSample(download_stats, a)
                 = <<TotalSize(StagingAt(Primary, a)), now>>

\* C3: while the log file has only grown (never truncated, never deleted),
\* no step makes last_position smaller.
C3_CursorMonotone ==
    [][hist'.shrinks = 0 => last_position' >= last_position]_vars

\* a second poll of a growing file has moved the cursor further
C3_Witness ==
    /\ ret.op = PollA
    /\ hist.shrinks = 0
    /\ ret.pos_before > 0
    /\ last_position > ret.pos_before

\* C4: in every reachable state, whatever happens to the log file between
\* polls (append, truncation, deletion and re-creation), last_position is at
\* most the current length of the log file, and after a poll it is not
\* smaller than before it.
C4_CursorBound ==
    /\ log_exists => last_position <= Len(log)
    /\ ret.op = PollA => last_position >= ret.pos_before

\* what C5 promises of a poll
EmptyPoll ==
    /\ ret.entries = <<>>
    /\ last_position = ret.pos_before
    /\ ret.value = None

\* C5, as claimed: for a log file that has never shrunk, a poll made when no
\* byte has been appended since the previous poll returns an empty batch,
\* leaves last_position unchanged, and get_current_download_status returns
\* None.
C5_EmptyRepoll_Claimed ==
    (ret.op = PollA /\ ret.quiet /\ hist.shrinks = 0) => EmptyPoll

\* C5, amended: the same of a poll made when no byte has been appended since
\* the last poll that read the file (a poll whose open or read raised has read
\* nothing, and the bytes wait for the next poll).
C5_EmptyRepoll ==
    (ret.op = PollA /\ ret.caught_up /\ hist.shrinks = 0) => EmptyPoll

\* a poll has opened a file that holds lines, all of them read before
C5_Witness ==
    /\ ret.op = PollA
    /\ ret.caught_up
    /\ ret.read
    /\ hist.shrinks = 0
    /\ last_position > 0

\* C6: the records get_download_info returns carry pairwise different
\* identifiers, whatever the library list, the manifests and the staging
\* directories are.
C6_DiscoveryDeduplicated ==
    ret.op = PollB
    => \A i, j \in 1..Len(ret.value) :
         i # j => ret.value[i].app_id # ret.value[j].app_id

Min(a, b) == IF a <= b THEN a ELSE b

Max(a, b) == IF a >= b THEN a ELSE b

Running == mon.pc \in {"poll", "sleep", "finish"}

\* C7: monitor() with a resolved root sets the deadline to start + 60 *
\* duration_minutes, polls only while now < deadline, sleeps
\* min(interval_seconds, max(0, deadline - now)) after each poll so that no
\* sleep ends after the deadline, and makes exactly one poll cycle when polls
\* take no time and interval_seconds >= 60 * duration_minutes > 0.
C7_DeadlineScheduling ==
    /\ Running => mon.end_time = mon.start_time + 60 * mon.duration_minutes
    /\ mon.pc = "poll" => now < mon.end_time
    /\ mon.pc = "sleep"
       => /\ mon.slept = Min(mon.interval_seconds, Max(0, mon.end_time - now))
          /\ mon.wake = now + mon.slept
          /\ mon.wake <= mon.end_time
    /\ (mon.pc = "finish" /\ ret.op \in {PollA, PollB})
       => Min(mon.interval_seconds, Max(0, mon.end_time - now)) = 0
    /\ (/\ ~mon.slow
        /\ mon.duration_minutes > 0
        /\ mon.interval_seconds >= 60 * mon.duration_minutes)
       => /\ Running => out.polls <= 1
          /\ mon.pc \in {"finish", "stopped"} => out.polls = 1

\* one minute at 90 seconds: one poll cycle, and the monitor has stopped
C7_Witness ==
    /\ mon.pc = "stopped"
    /\ mon.duration_minutes = 1
    /\ mon.interval_seconds = 90
    /\ ~mon.slow
    /\ out.polls = 1
    /\ out.sleeps = 1
    /\ out.completed = 1
    /\ now = mon.end_time

\* C8: when no Steam root was found, monitor() reports the error once and
\* returns without a poll, a sleep or a completion marker, the poll
\* operations return None / the empty list, the name lookup returns the
\* fallback name, and none of them opens a file or a directory.
C8_UnresolvedRoot ==
    steam_path = NoPath
    => /\ mon.pc \in {"idle", "stopped"}
       /\ out.polls = 0 /\ out.sleeps = 0 /\ out.completed = 0
       /\ out.errors = (IF mon.pc = "stopped" THEN 1 ELSE 0)
       /\ last_position = 0
       /\ ret.op = PollA
          => ret.value = None /\ ret.entries = <<>> /\ ret.opens = 0
       /\ ret.op = PollB => ret.value = <<>> /\ ret.opens = 0
       /\ ret.op = "_get_app_name"
          => ret.value = AppIDLit \o ret.app_id /\ ret.opens = 0

\* without a root monitor() has returned, and a poll made afterwards found
\* nothing although the log file exists and holds a status line
C8_Witness ==
    /\ steam_path = NoPath
    /\ mon.pc = "stopped"
    /\ out.errors = 1
    /\ ret.op = PollA
    /\ log_exists /\ Len(log) > 0

\* the staging directory get_download_info looks at
Staged(rec) == StagingAt(Primary, rec.app_id)

\* C9, as claimed: a record of get_download_info is "downloading" exactly
\* when now - maxMtime < 120, maxMtime being the largest modification time of
\* the files under the staging directory (0 without files), and "paused"
\* otherwise.
C9_RecencyWindow_Claimed ==
    ret.op = PollB
    => \A k \in 1..Len(ret.value) :
         /\ ret.value[k].status \in {"downloading", "paused"}
         /\ ret.value[k].status = "downloading"
            <=> now - LatestMtime(Staged(ret.value[k])) < 120

\* C9, amended: the record is "downloading" exactly when reading the
\* modification times raised no error and now - maxMtime < 120; it is
\* "paused" otherwise, at exactly 120 seconds and when the walk failed.
C9_RecencyWindow ==
    ret.op = PollB
    => \A k \in 1..Len(ret.value) :
         /\ ret.value[k].status \in {"downloading", "paused"}
         /\ ret.value[k].status = "downloading"
            <=> /\ ret.value[k].app_id \notin ret.mtimeErr
                /\ now - LatestMtime(Staged(ret.value[k])) < 120

\* a record is paused because its newest file is exactly 120 seconds old
C9_Witness ==
    /\ ret.op = PollB
    /\ \E k \in 1..Len(ret.value) :
         /\ ret.value[k].status = "paused"
         /\ ret.value[k].app_id \notin ret.mtimeErr
         /\ Present(Staged(ret.value[k])) # {}
         /\ now - LatestMtime(Staged(ret.value[k])) = 120

\* C10: a record says "downloading" only on positive evidence: from the log,
\* the chosen line carries a throughput value and no pause keyword; from the
\* staging directory, some file was modified less than 120 seconds ago.  In
\* every other case, an error during the walk included, the record says
\* "paused", and a paused staging record has speed 0.0.
C10_DownloadingNeedsEvidence ==
    /\ (ret.op = PollA /\ ret.value # None)
       => /\ \E k \in 1..Len(ret.entries) : ret.entries[k] = ret.line
          /\ ret.value.status \in {"downloading", "paused"}
          /\ ret.value.status = "downloading"
             <=> /\ SpeedMatches(ret.line)
                 /\ Contains(ret.line, MBsLit)
                 /\ ~Contains(Lower(ret.line), PausedLit)
                 /\ ~Contains(Lower(ret.line), SuspendedLit)
    /\ ret.op = PollB
       => \A k \in 1..Len(ret.value) :
            /\ ret.value[k].status \in {"downloading", "paused"}
            /\ ret.value[k].status = "downloading"
               => \E f \in Present(Staged(ret.value[k])) :
                    now - Staged(ret.value[k]).files[f].mtime < 120
            /\ ret.value[k].app_id \in ret.mtimeErr
               => ret.value[k].status = "paused"
            /\ ret.value[k].status = "paused"
               => ret.value[k].speed_mbps = Zero

\* a staging record says "downloading", and its directory holds files
C10_Witness ==
    /\ ret.op = PollB
    /\ \E k \in 1..Len(ret.value) :
         /\ ret.value[k].status = "downloading"
         /\ Present(Staged(ret.value[k])) # {}

\* C11: whatever sizes are observed for an identifier, sizes that decrease
\* between samples and directories that cannot be read included,
\* _estimate_download_speed returns a value >= 0, and every record of
\* get_download_info has speed_mbps >= 0.
C11_NonNegativeThroughput ==
    /\ ret.op = Estimate => ret.value.num >= 0 /\ ret.value.den > 0
    /\ ret.op = PollB
       => \A k \in 1..Len(ret.value) :
            /\ ret.value[k].speed_mbps.num >= 0
            /\ ret.value[k].speed_mbps.den > 0

\* the directory was read smaller than an earlier call read it
C11_Witness ==
    /\ ret.op = Estimate
    /\ ret.read
    /\ ret.prev # <<>>
    /\ ret.total < ret.prev[1]
    /\ now > ret.prev[2]

\* C12: the first call of _estimate_download_speed that observes an
\* identifier (no call has read its size before) returns 0.0 whatever the
\* size of the staging directory.
C12_FirstObservation ==
    (ret.op = Estimate /\ ret.app_id \in Written /\ ret.prev = <<>>)
    => ret.value.num = 0

\* a first observation of a directory that holds bytes
C12_Witness ==
    /\ ret.op = Estimate
    /\ ret.app_id \in Written
    /\ ret.prev = <<>>
    /\ ret.read
    /\ ret.total > 0

\* C13: a call of _estimate_download_speed for an identifier whose staging
\* directory does not exist returns 0.0 and leaves download_stats as it was.
C13_MissingStagingFrame ==
    [][(ret'.op = Estimate /\ ~StagingAt(Primary, ret'.app_id).exists)
       => (ret'.value.num = 0 /\ download_stats' = download_stats)]_vars

\* the directory was observed by an earlier call and is gone at this one
C13_Witness ==
    /\ ret.op = Estimate
    /\ ~StagingAt(Primary, ret.app_id).exists
    /\ ~ret.read
    /\ ret.prev # <<>>

\* the lines of the last batch that the parser recognises
RecognisedInBatch ==
    {k \in 1..Len(ret.entries) : _parse_log_line(ret.entries[k]) # None}

\* C14: get_current_download_status returns one record or None; the record is
\* built from the last line of the batch, in file order, that the parser
\* recognises, and from that line alone; the result is None exactly when no
\* line of the batch is recognised.
C14_LatestSignalWins ==
    ret.op = PollA
    => /\ ret.value = None <=> RecognisedInBatch = {}
       /\ RecognisedInBatch # {}
          => \E k \in RecognisedInBatch :
               /\ \A j \in RecognisedInBatch : j <= k
               /\ ret.line = ret.entries[k]
               /\ ret.value.app_id = _parse_log_line(ret.entries[k]).app_id
               /\ ret.value.speed_mbps = _parse_log_line(ret.entries[k]).speed
               /\ ret.value.status = _parse_log_line(ret.entries[k]).status

\* a batch with two recognised lines that say different things
C14_Witness ==
    /\ ret.op = PollA
    /\ \E i, k \in RecognisedInBatch :
         /\ i < k
         /\ _parse_log_line(ret.entries[i]).status
              # _parse_log_line(ret.entries[k]).status
         /\ ret.value.status = _parse_log_line(ret.entries[k]).status

\* C15: a poll made while the log file does not exist returns an empty batch,
\* opens nothing and leaves last_position as it was, before the file is first
\* created and after it is deleted.
C15_MissingLogFile ==
    (ret.op = PollA /\ ~log_exists)
    => /\ ret.entries = <<>>
       /\ ret.value = None
       /\ ~ret.read
       /\ ret.opens = 0
       /\ last_position = ret.pos_before

\* a poll after the file was read and then deleted
C15_Witness ==
    /\ ret.op = PollA
    /\ steam_path # NoPath
    /\ ~log_exists
    /\ hist.shrinks > 0
    /\ last_position > 0

\* what a Strategy A poll of the loop shows when it uses its own record only
OwnRecordOnly(value) == [record |-> value, last |-> None]

C17_OperatorInterruption ==
    /\ out.uncaught = 0
    /\ out.interrupted <= 1
    /\ out.interrupted = 1 => (mon.pc = "stopped" /\ out.completed = 0)

\* C20: with a resolved root, whatever duration_minutes >= 0 and
\* interval_seconds >= 0 are, monitor() leaves its loop and prints the
\* completion marker exactly once; with duration 0 it does so without a
\* poll.
C20_LoopTermination ==
    /\ [](steam_path # NoPath
          => /\ out.completed <= 1
             /\ mon.pc = "stopped" => out.completed = 1
             /\ (mon.pc \in {"finish", "stopped"} /\ mon.duration_minutes = 0)
                => out.polls = 0)
    /\ (Running ~> mon.pc = "stopped")

\* the loop has ended although it never sleeps
C20_Witness ==
    /\ mon.pc = "stopped"
    /\ mon.interval_seconds = 0
    /\ mon.duration_minutes = MaxDuration
    /\ out.polls >= 2
    /\ out.completed = 1

\* the places in the enumeration of the library roots whose manifest of
\* app_id can be read and holds a name
NamedRoots(app_id) ==
    {k \in 1..Len(LibraryFolders) :
        /\ ManifestAt(LibraryFolders[k], app_id).exists
        /\ ManifestAt(LibraryFolders[k], app_id).readable
        /\ ManifestAt(LibraryFolders[k], app_id).name # <<>>}

\* C18: _get_app_name(id) returns "AppID " followed by id whenever no library
\* root holds a manifest of id from which a name can be read (no manifest, a
\* manifest without a name, an unreadable manifest, no install root);
\* otherwise it returns the name from the first library root, in enumeration
\* order, that has one.
C18_FallbackName ==
    ret.op = "_get_app_name"
    => IF steam_path = NoPath \/ NamedRoots(ret.app_id) = {}
       THEN ret.value = <<"A", "p", "p", "I", "D", " ">> \o ret.app_id
       ELSE ret.value =
              ManifestAt(LibraryFolders[SetMin(NamedRoots(ret.app_id))],
                         ret.app_id).name

\* two library roots hold different names, and the first one is returned
C18_Witness ==
    /\ ret.op = "_get_app_name"
    /\ \E i, k \in NamedRoots(ret.app_id) :
         /\ i < k
         /\ ManifestAt(LibraryFolders[i], ret.app_id).name
              # ManifestAt(LibraryFolders[k], ret.app_id).name
         /\ ret.value = ManifestAt(LibraryFolders[i], ret.app_id).name

\* the first "AppID <digits>" token of a line, and its whole digit run
TokenAt(s) == SetMin({i \in 1..Len(s) : /\ MatchAt(s, i, <<"A","p","p","I","D"," ">>)
                                         /\ i + 6 <= Len(s)
                                         /\ s[i + 6] \in Digits})

TokenEnd(s) ==
    SetMax({e \in (TokenAt(s) + 6)..Len(s) :
              \A k \in (TokenAt(s) + 6)..e : s[k] \in Digits})

HasToken(s) ==
    \E i \in 1..Len(s) : /\ MatchAt(s, i, <<"A","p","p","I","D"," ">>)
                         /\ i + 6 <= Len(s)
                         /\ s[i + 6] \in Digits

\* a number (digits, an optional point, digits) stands at a, immediately
\* before "MB/s" but for blanks
NumberBeforeUnit(s, a) ==
    /\ s[a] \in Digits
    /\ \E e \in a..Len(s) :
         /\ \A k \in a..e : s[k] \in Digits \cup {"."}
         /\ Cardinality({k \in a..e : s[k] = "."}) <= 1
         /\ \E u \in (e + 1)..Len(s) :
              /\ \A k \in (e + 1)..(u - 1) : s[k] \in Spaces
              /\ MatchAt(s, u, <<"M", "B", "/", "s">>)

ThroughputAfterToken(s) ==
    \E a \in (TokenEnd(s) + 1)..Len(s) : NumberBeforeUnit(s, a)

PauseWord(s) ==
    \E i \in 1..Len(s) :
        \/ MatchAt(Lower(s), i, <<"p", "a", "u", "s", "e", "d">>)
        \/ MatchAt(Lower(s), i, <<"s", "u", "s", "p", "e", "n", "d", "e", "d">>)

\* C19: for a line with an "AppID <digits>" token followed later by a number
\* immediately before "MB/s", _parse_log_line returns the whole digit run of
\* the token, the speed, and paused iff the line holds "paused" or
\* "suspended" in any letter case; for a line with the token and a pause
\* keyword but no throughput it returns (identifier, 0.0, paused); for every
\* other line it returns None.  The two lines of the documentation give
\* ("123", 5.50, downloading) and ("123", 0.0, paused).
C19_LogLineParsing ==
    ret.op = "_parse_log_line"
    => /\ IF ~HasToken(ret.line) THEN ret.value = None
          ELSE IF ThroughputAfterToken(ret.line)
          THEN /\ ret.value # None
               /\ ret.value.app_id
                    = SubSeq(ret.line, TokenAt(ret.line) + 6, TokenEnd(ret.line))
               /\ ret.value.speed >= 0
               /\ ret.value.status = IF PauseWord(ret.line) THEN "paused"
                                     ELSE "downloading"
          ELSE IF PauseWord(ret.line)
          THEN ret.value =
                 [app_id |-> SubSeq(ret.line, TokenAt(ret.line) + 6,
                                    TokenEnd(ret.line)),
                  speed |-> 0, status |-> "paused"]
          ELSE ret.value = None
       /\ ret.line = UpdateLine
          => ret.value = [app_id |-> <<"1", "2", "3">>, speed |-> 550,
                          status |-> "downloading"]
       /\ ret.line = PausedLine
          => ret.value = [app_id |-> <<"1", "2", "3">>, speed |-> 0,
                          status |-> "paused"]

C22_WholeLinesOnly ==
    (ret.op = PollA /\ hist.shrinks = 0)
    => /\ \A k \in 1..Len(ret.entries) :
            ret.entries[k][Len(ret.entries[k])] = "\n"
       /\ ret.entries # <<>>
          => (ret.pos_before = 0 \/ log[ret.pos_before] = "\n")

\* C23: get_download_info looks for the staging directory of an identifier
\* under the primary root only: a record whose identifier has no staging
\* directory there says paused with speed 0.0, and no size sample is made for
\* it, whatever the other library holds.
C23_SingleStagingRoot ==
    ret.op = PollB
    => \A k \in 1..Len(ret.value) :
         ~StagingAt(Primary, ret.value[k].app_id).exists
         => /\ ret.value[k].status = "paused"
            /\ ret.value[k].speed_mbps.num = 0
            /\ ret.value[k].app_id \notin ret.reads
            /\ ~StatsContains(download_stats, ret.value[k].app_id)

\* an identifier found in the other library only, where its staging
\* directory holds a file written less than 120 seconds ago
C23_Witness ==
    /\ ret.op = PollB
    /\ \E k \in 1..Len(ret.value) :
         /\ ~StagingAt(Primary, ret.value[k].app_id).exists
         /\ ~ManifestAt(Primary, ret.value[k].app_id).exists
         /\ StagingAt("L", ret.value[k].app_id).exists
         /\ \E f \in Present(StagingAt("L", ret.value[k].app_id)) :
              now - StagingAt("L", ret.value[k].app_id).files[f].mtime < 120
         /\ ret.value[k].status = "paused"

=============================================================================
